---- MODULE Spec2Model ----
(***************************************************************************)
(* Model of the session-loop controller of autonomous-claude               *)
(* (src/src/autonomous_claude/agent.py): the checklist file                *)
(* feature_list.json, its load / validate / restore functions, and the     *)
(* loop run_agent_loop that drives the external agent.                     *)
(***************************************************************************)
EXTENDS Integers, Sequences, FiniteSets, TLC

\* ---------------------------------------------------------------------
\* Bounds of the model
\* ---------------------------------------------------------------------
\* longest list the checklist file holds
MaxLen == 2
\* sessions explored when no ceiling is configured
MaxSessions == 2
\* longest checklist when validate_feature_changes is explored on its own
MaxRecords == 3

\* ---------------------------------------------------------------------
\* JSON / Python values
\* ---------------------------------------------------------------------
\* a key that is not in a dict; get(key) then yields its default
NoKey == 0
\* feature names: as many as fill the longest list without a repeat
Names == 1..MaxLen
\* description texts: the code only tests two descriptions for equality,
\* so a text and a rewording of it stand for all
Descs == {1, 2}

\* a non-empty dict with the three keys of a feature record
FeatureRecord(n, d, p) == [k |-> "dict", feature |-> n, description |-> d, passes |-> p]
\* the dict {} : no key at all
EmptyDict == [k |-> "empty", feature |-> NoKey, description |-> NoKey, passes |-> FALSE]
\* an element that is not a dict (a string, a number); it has no .get
NonDict == [k |-> "other", feature |-> NoKey, description |-> NoKey, passes |-> FALSE]

Records == {FeatureRecord(n, d, p) : n \in Names, d \in Descs, p \in BOOLEAN}
Elements == Records \cup {EmptyDict, NonDict}

SeqsUpTo(S, n) == UNION {[1..m -> S] : m \in 0..n}

\* Python values json.loads can return: None (JSON null), a non-zero number,
\* a string ("" or one character), an object ({} or one key) and a list.
\* items is what iterating the value yields.
PyNone == [t |-> "none", items |-> <<>>]
PyNum == [t |-> "num", items |-> <<>>]
PyStr(s) == [t |-> "str", items |-> s]
PyDict(s) == [t |-> "dict", items |-> s]
PyList(s) == [t |-> "list", items |-> s]

Lists == {PyList(s) : s \in SeqsUpTo(Elements, MaxLen)}
Shapes == {PyNone, PyNum, PyStr(<<>>), PyStr(<<NonDict>>), PyDict(<<>>), PyDict(<<NonDict>>)}
PyValues == Lists \cup Shapes

\* for f in v: a number raises TypeError
Iterable(v) == v.t \in {"str", "dict", "list"}
\* bool(v) of a loaded value
Truthy(v) == v.t = "num" \/ (Iterable(v) /\ v.items # <<>>)

\* ---------------------------------------------------------------------
\* The file feature_list.json
\* ---------------------------------------------------------------------
\* missing: no file; binary: bytes that do not decode; text: text that is
\* not JSON; json: a JSON document in some layout
Layouts == {"compact", "indent2"}
Missing == [kind |-> "missing", layout |-> "none", val |-> PyNone]
Binary == [kind |-> "binary", layout |-> "none", val |-> PyNone]
Text == [kind |-> "text", layout |-> "none", val |-> PyNone]
JsonFile(l, v) == [kind |-> "json", layout |-> l, val |-> v]

FileContents == {Missing, Binary, Text} \cup {JsonFile(l, v) : l \in Layouts, v \in PyValues}
\* what the project directory holds when run_agent_loop is entered
InitialContents == {Missing, Binary, Text} \cup {JsonFile("compact", v) : v \in PyValues}

Ret(v) == [exc |-> "none", val |-> v]
Raise(e) == [exc |-> e, val |-> PyNone]
RetBool(b) == [exc |-> "none", val |-> b]
RaiseBool(e) == [exc |-> e, val |-> FALSE]

\* json.loads(feature_list.read_text())
json_loads(c) ==
    CASE c.kind = "binary" -> Raise("UnicodeDecodeError")
      [] c.kind = "text" -> Raise("JSONDecodeError")
      [] c.kind = "missing" -> Raise("FileNotFoundError")
      [] OTHER -> Ret(c.val)

\* json.dumps(features, indent=2)
json_dumps(v) == JsonFile("indent2", v)

\* f.get("passes", False) and f.get("passes") as a condition
PassesOf(f) == f.k = "dict" /\ f.passes

RECURSIVE AllPasses(_)
\* all(f.get("passes", False) for f in features), left to right
AllPasses(s) ==
    IF s = <<>> THEN RetBool(TRUE)
    ELSE IF Head(s).k = "other" THEN RaiseBool("AttributeError")
    ELSE IF ~PassesOf(Head(s)) THEN RetBool(FALSE)
    ELSE AllPasses(Tail(s))

is_project_complete(c) ==
    IF c.kind = "missing" THEN RetBool(FALSE)
    ELSE LET r == json_loads(c) IN
         IF r.exc = "JSONDecodeError" THEN RetBool(FALSE)
         ELSE IF r.exc # "none" THEN RaiseBool(r.exc)
         ELSE IF ~Iterable(r.val) THEN RetBool(FALSE)
         ELSE AllPasses(r.val.items)

load_features(c) ==
    IF c.kind = "missing" THEN Ret(PyNone)
    ELSE LET r == json_loads(c) IN
         IF r.exc = "JSONDecodeError" THEN Ret(PyNone)
         ELSE r

\* ---------------------------------------------------------------------
\* validate_feature_changes and save_features
\* ---------------------------------------------------------------------
\* f.get("feature", ""): NoKey stands for the default ""
NameOf(f) == f.feature
\* f.get("description"): NoKey stands for None
DescriptionOf(f) == f.description

NamesIn(s) == {NameOf(s[i]) : i \in DOMAIN s}

\* {f.get("feature", ""): f for f in s}: a later record replaces an earlier
\* one of the same name
ByName(s) ==
    [n \in NamesIn(s) |->
        s[CHOOSE i \in DOMAIN s : NameOf(s[i]) = n /\ \A j \in DOMAIN s : NameOf(s[j]) = n => j <= i]]

RECURSIVE KeyOrder(_)
\* the keys of that dict in iteration order: by first insertion
KeyOrder(s) ==
    IF s = <<>> THEN <<>>
    ELSE LET init == SubSeq(s, 1, Len(s) - 1)
             last == NameOf(s[Len(s)])
         IN  IF last \in NamesIn(init) THEN KeyOrder(init)
             ELSE Append(KeyOrder(init), last)

\* building the lookup calls .get on every element
LookupRaises(v) ==
    IF ~Iterable(v) THEN "TypeError"
    ELSE IF \E i \in DOMAIN v.items : v.items[i].k = "other" THEN "AttributeError"
    ELSE "none"

NoReason == [kind |-> "", names |-> {}]
Valid == [exc |-> "none", is_valid |-> TRUE, error |-> NoReason]
Invalid(kind, names) == [exc |-> "none", is_valid |-> FALSE, error |-> [kind |-> kind, names |-> names]]
ValidateRaises(e) == [exc |-> e, is_valid |-> FALSE, error |-> NoReason]

RECURSIVE CheckRecords(_, _, _)
\* compares the whole record, passes included
CheckRecords(keys, before_by_name, after_by_name) ==
    IF keys = <<>> THEN Valid
    ELSE IF before_by_name[Head(keys)] # after_by_name[Head(keys)]
    THEN Invalid("Feature description was modified", {Head(keys)})
    ELSE CheckRecords(Tail(keys), before_by_name, after_by_name)

RECURSIVE CheckDescriptions(_, _, _)
\* for name, before_feat in before_by_name.items(): the first modified
\* description ends the loop
CheckDescriptions(keys, before_by_name, after_by_name) ==
    IF keys = <<>> THEN Valid
    ELSE LET name == Head(keys)
             before_feat == before_by_name[name]
             after_feat == after_by_name[name]
         IN  IF after_feat.k = "empty"
             THEN CheckDescriptions(Tail(keys), before_by_name, after_by_name)
             ELSE IF DescriptionOf(before_feat) # DescriptionOf(after_feat)
             THEN Invalid("Feature description was modified", {name})
             ELSE CheckDescriptions(Tail(keys), before_by_name, after_by_name)

\* reports one removed feature only
validate_feature_changes_OneRemoved(before, after) ==
    IF before = PyNone THEN Valid
    ELSE IF after = PyNone THEN Invalid("feature_list.json was deleted or corrupted", {})
    ELSE IF LookupRaises(before) # "none" THEN ValidateRaises(LookupRaises(before))
    ELSE IF LookupRaises(after) # "none" THEN ValidateRaises(LookupRaises(after))
    ELSE LET before_by_name == ByName(before.items)
             after_by_name == ByName(after.items)
             removed == (DOMAIN before_by_name) \ (DOMAIN after_by_name)
         IN  IF removed # {} THEN Invalid("Features were removed", {CHOOSE n \in removed : TRUE})
             ELSE CheckDescriptions(KeyOrder(before.items), before_by_name, after_by_name)

\* does not look at the descriptions
validate_feature_changes_NoDescriptions(before, after) ==
    IF before = PyNone THEN Valid
    ELSE IF after = PyNone THEN Invalid("feature_list.json was deleted or corrupted", {})
    ELSE IF LookupRaises(before) # "none" THEN ValidateRaises(LookupRaises(before))
    ELSE IF LookupRaises(after) # "none" THEN ValidateRaises(LookupRaises(after))
    ELSE LET removed == NamesIn(before.items) \ NamesIn(after.items)
         IN  IF removed # {} THEN Invalid("Features were removed", removed) ELSE Valid

\* tests after before it tests before
validate_feature_changes_AfterFirst(before, after) ==
    IF after = PyNone THEN Invalid("feature_list.json was deleted or corrupted", {})
    ELSE IF before = PyNone THEN Valid
    ELSE IF LookupRaises(before) # "none" THEN ValidateRaises(LookupRaises(before))
    ELSE IF LookupRaises(after) # "none" THEN ValidateRaises(LookupRaises(after))
    ELSE LET before_by_name == ByName(before.items)
             after_by_name == ByName(after.items)
             removed == (DOMAIN before_by_name) \ (DOMAIN after_by_name)
         IN  IF removed # {} THEN Invalid("Features were removed", removed)
             ELSE CheckDescriptions(KeyOrder(before.items), before_by_name, after_by_name)

\* takes a missing file for a list without records
validate_feature_changes_AbsentAsEmpty(before, after) ==
    IF before = PyNone THEN Valid
    ELSE IF LookupRaises(before) # "none" THEN ValidateRaises(LookupRaises(before))
    ELSE IF after # PyNone /\ LookupRaises(after) # "none" THEN ValidateRaises(LookupRaises(after))
    ELSE LET before_by_name == ByName(before.items)
             after_by_name == ByName(after.items)
             removed == (DOMAIN before_by_name) \ (DOMAIN after_by_name)
         IN  IF removed # {} THEN Invalid("Features were removed", removed)
             ELSE CheckDescriptions(KeyOrder(before.items), before_by_name, after_by_name)

validate_feature_changes(before, after) ==
    IF before = PyNone THEN Valid
    ELSE IF after = PyNone THEN Invalid("feature_list.json was deleted or corrupted", {})
    ELSE IF LookupRaises(before) # "none" THEN ValidateRaises(LookupRaises(before))
    ELSE IF LookupRaises(after) # "none" THEN ValidateRaises(LookupRaises(after))
    ELSE LET before_by_name == ByName(before.items)
             after_by_name == ByName(after.items)
             removed == (DOMAIN before_by_name) \ (DOMAIN after_by_name)
         IN  IF removed # {} THEN Invalid("Features were removed", removed)
             ELSE CheckDescriptions(KeyOrder(before.items), before_by_name, after_by_name)

\* writes only the records that pass
save_features_PassingOnly(features) ==
    json_dumps([features EXCEPT !.items = SelectSeq(features.items, PassesOf)])

\* feature_list.write_text(json.dumps(features, indent=2))
save_features(features) == json_dumps(features)

\* ---------------------------------------------------------------------
\* Progress statistics (ui.py)
\* ---------------------------------------------------------------------
CountPassing(s) == Cardinality({i \in DOMAIN s : PassesOf(s[i])})

\* (passing, total); only JSONDecodeError and IOError are handled
get_progress_stats(c) ==
    IF c.kind = "missing" THEN [exc |-> "none", passing |-> 0, total |-> 0]
    ELSE LET r == json_loads(c) IN
         IF r.exc = "JSONDecodeError" THEN [exc |-> "none", passing |-> 0, total |-> 0]
         ELSE IF r.exc # "none" THEN [exc |-> r.exc, passing |-> 0, total |-> 0]
         ELSE IF LookupRaises(r.val) # "none"
         THEN [exc |-> LookupRaises(r.val), passing |-> 0, total |-> 0]
         ELSE [exc |-> "none", passing |-> CountPassing(r.val.items), total |-> Len(r.val.items)]

\* sum(1 for f in (features or []) if f.get("passes")) and the
\* comprehensions over (features or []): what they raise
OrEmptyRaises(v) == IF Truthy(v) THEN LookupRaises(v) ELSE "none"

\* ---------------------------------------------------------------------
\* State of one run of run_agent_loop
\* ---------------------------------------------------------------------
VARIABLES
    disk,                   \* content of feature_list.json
    pc,                     \* position in run_agent_loop
    is_adoption,            \* parameters of run_agent_loop
    is_enhancement,
    verbose,
    max_sessions,           \* 0 stands for None and for 0: line 235 tests it
                            \* for truth, which both fail
    needs_enhancement_init,
    session_count,
    session_type,           \* kind chosen in the current iteration
    features_before,
    features_after,
    is_valid,
    error,
    outcome,                \* how the run ended
    raised,                 \* the exception that left run_agent_loop
    raised_at,              \* the step that raised it
    history,                \* one entry per session started: its kind, whether its
                            \* validation step finished, whether it left a file,
                            \* the warnings printed after it, the newly
                            \* completed records reported after it
    mutation,               \* the change applied to a checklist (diff checks)
    call,                   \* the latest run_session call: what it caught, what
                            \* it returned or raised, the checklist file as the
                            \* session left it
    logs,                   \* the session log records written so far
    reported,               \* the closing reports printed
    stopped,                \* the latest return value of wait_for_stop_signal
    isatty,                 \* sys.stdin is a terminal
    wait_timeout,           \* wait_for_stop_signal's timeout, in seconds
    remaining,              \* its countdown
    term,                   \* the settings the terminal is in
    term_at_entry,          \* the settings it was in when the wait was entered
    old_settings,           \* the settings the wait saved
    stdin,                  \* keypresses not yet read
    consumed,               \* keypresses the wait has read
    app_spec,               \* run_agent_loop's app_spec parameter
    spec_file,              \* the content of app_spec.txt
    seeds,                  \* the app_spec of every entry into run_agent_loop so far
    command,                \* the cli command given
    claude,                 \* the claude binary is on the PATH
    project,                \* what the project path is: missing, a file, a directory
    exit_code,              \* the exit code of the cli
    progress,               \* the latest progress report
    clock,                  \* the time in seconds
    log_files               \* the files of the log directory: path, content and
                            \* the run_session call that wrote it

params == <<is_adoption, is_enhancement, verbose, max_sessions>>
locals == <<features_before, features_after, is_valid, error>>
vars == <<disk, pc, is_adoption, is_enhancement, verbose, max_sessions,
          needs_enhancement_init, session_count, session_type, features_before,
          features_after, is_valid, error, outcome, raised, raised_at, history,
          mutation, call, logs, reported, stopped, isatty, wait_timeout, remaining,
          term, term_at_entry, old_settings, stdin, consumed, app_spec, spec_file,
          seeds, command, claude, project, exit_code, progress, clock, log_files>>

NoMutation == [op |-> "none", names |-> {}]
NoCall == [caught |-> "none", status |-> "none", exc |-> "none", ran |-> FALSE, left |-> Missing]
\* the variables of wait_for_stop_signal
tty == <<isatty, wait_timeout, remaining, term, term_at_entry, old_settings, stdin,
         consumed>>
\* the seeding of app_spec.txt
seeding == <<app_spec, spec_file, seeds>>
\* the command line
cli == <<command, claude, project, exit_code>>
\* the reports and the log directory, followed on their own
apart == <<progress, clock, log_files>>
\* what the loop alone never changes
aside == <<mutation, tty, cli, apart>>

NoReport == [passing |-> 0, total |-> 0, percent |-> "none", shown |-> "none"]
NoApart ==
    /\ progress = NoReport
    /\ clock = 0
    /\ log_files = {}

\* run_agent_loop called on an existing directory, not through the cli
NoCli ==
    /\ command = "none"
    /\ claude = TRUE
    /\ project = "dir"
    /\ exit_code = "none"

\* app_spec is None, app_spec.txt does not exist
NoSpec == "None"
NoSpecFile == "missing"
\* a run without app_spec on a project without app_spec.txt
NoSeeding ==
    /\ app_spec = NoSpec
    /\ spec_file = NoSpecFile
    /\ seeds = <<>>

\* no wait_for_stop_signal call under way
NoWait ==
    /\ isatty = FALSE
    /\ wait_timeout = 0
    /\ remaining = 0
    /\ term = "cooked"
    /\ term_at_entry = "cooked"
    /\ old_settings = "none"
    /\ stdin = 0
    /\ consumed = 0

InitKinds == {"initializer", "adoption_init"}
SessionKinds == InitKinds \cup {"enhancement_init", "coding"}

\* The calls explored. cli.py passes is_adoption only when there is no
\* checklist file and is_enhancement only when there is one; every such
\* call is explored on the files that hold at most one element. Longer
\* lists are explored under a verbose call with neither flag and a ceiling
\* of one session.
CliCall ==
    /\ is_adoption => disk.kind = "missing"
    /\ is_enhancement => disk.kind # "missing"
    /\ Len(disk.val.items) <= 1
PlainCall ==
    /\ ~is_adoption /\ ~is_enhancement
    /\ verbose /\ max_sessions = 1

Init ==
    /\ disk \in InitialContents
    /\ pc = "entry"
    /\ is_adoption \in BOOLEAN
    /\ is_enhancement \in BOOLEAN
    /\ verbose \in BOOLEAN
    /\ max_sessions \in 0..MaxSessions
    /\ CliCall \/ PlainCall
    /\ needs_enhancement_init = FALSE
    /\ session_count = 0
    /\ session_type = "none"
    /\ features_before = PyNone
    /\ features_after = PyNone
    /\ is_valid = TRUE
    /\ error = NoReason
    /\ outcome = "running"
    /\ raised = "none"
    /\ raised_at = "none"
    /\ history = <<>>
    /\ mutation = NoMutation
    /\ call = NoCall
    /\ logs = <<>>
    /\ reported = {}
    /\ stopped = FALSE
    /\ NoWait
    /\ NoSeeding
    /\ NoCli
    /\ NoApart

\* an exception leaves run_agent_loop
Crash(e, at) ==
    /\ pc' = "done"
    /\ outcome' = "exception"
    /\ raised' = e
    /\ raised_at' = at

\* ---------------------------------------------------------------------
\* run_agent_loop
\* ---------------------------------------------------------------------
\* writes the content whether or not the file exists
copy_spec_to_project_Overwrite(file, spec_content) ==
    spec_content

\* prompts/__init__.py lines 67-70: written only when the file does not exist
copy_spec_to_project(file, spec_content) ==
    IF file = NoSpecFile THEN spec_content ELSE file

\* lines 212-222: copy_spec_to_project is called when app_spec is truthy, in
\* the branch of the missing checklist and in the enhancement branch
Seeds ==
    /\ app_spec \notin {NoSpec, ""}
    /\ disk.kind = "missing" \/ is_enhancement

\* lines 203-227: everything before the loop. print_resuming reads the
\* progress statistics of the file.
Enter ==
    /\ pc = "entry"
    /\ needs_enhancement_init' = is_enhancement
    /\ spec_file' = IF Seeds THEN copy_spec_to_project(spec_file, app_spec) ELSE spec_file
    /\ seeds' = Append(seeds, app_spec)
    /\ UNCHANGED app_spec
    /\ IF disk.kind # "missing" /\ ~is_enhancement /\ get_progress_stats(disk).exc # "none"
       THEN Crash(get_progress_stats(disk).exc, "print_resuming")
       ELSE pc' = "top" /\ UNCHANGED <<outcome, raised, raised_at>>
    /\ UNCHANGED <<disk, params, session_count, session_type, locals, history, aside,
                   call, logs, reported, stopped>>

\* ui.print_complete after the loop (line 288) reads the statistics again
\* and prints the complete report; said lists what the loop printed before
\* it left the loop
AfterLoop(reason, said) ==
    IF get_progress_stats(disk).exc # "none"
    THEN Crash(get_progress_stats(disk).exc, "print_complete") /\ reported' = reported \cup said
    ELSE /\ pc' = "done" /\ outcome' = reason
         /\ reported' = reported \cup said \cup {"complete"}
         /\ UNCHANGED <<raised, raised_at>>

\* the initializer only in the first iteration, whatever the file
ChooseKind_FirstRunOnly ==
    IF needs_enhancement_init THEN "enhancement_init"
    ELSE IF disk.kind = "missing" /\ session_count = 0
         THEN (IF is_adoption THEN "adoption_init" ELSE "initializer")
    ELSE "coding"

\* a coding session whenever no enhancement initializer is pending
ChooseKind_NoInitializer ==
    IF needs_enhancement_init THEN "enhancement_init" ELSE "coding"

\* the session kind of lines 239-254
ChooseKind ==
    IF needs_enhancement_init THEN "enhancement_init"
    ELSE IF disk.kind = "missing" THEN (IF is_adoption THEN "adoption_init" ELSE "initializer")
    ELSE "coding"

\* one session more than the ceiling
CeilingReached_OneMore ==
    max_sessions # 0 /\ session_count > max_sessions

\* line 235: the ceiling check, made after session_count was incremented
\* (written here on the count before the increment)
CeilingReached ==
    max_sessions # 0 /\ session_count + 1 > max_sessions

\* the ceiling is consulted before the completion check
LeavesLoop_CeilingFirst(complete) ==
    IF CeilingReached THEN "max_sessions"
    ELSE IF complete THEN "complete"
    ELSE "none"

\* lines 230-237: the two breaks of the loop, in the order of the code. The
\* completion check comes first, before session_count is incremented.
LeavesLoop(complete) ==
    IF complete THEN "complete"
    ELSE IF CeilingReached THEN "max_sessions"
    ELSE "none"

\* lines 229-258: completion check, ceiling check, choice of the session
\* kind and the snapshot before the session. A run without a ceiling is
\* followed for one session less than the highest ceiling.
LoopTop ==
    /\ pc = "top"
    /\ max_sessions = 0 => session_count < MaxSessions - 1
    /\ LET complete == is_project_complete(disk)
           before == load_features(disk)
       IN  IF complete.exc # "none"
           THEN /\ Crash(complete.exc, "is_project_complete")
                /\ UNCHANGED <<needs_enhancement_init, session_count, session_type, locals, history,
                               reported>>
           ELSE IF LeavesLoop(complete.val) = "complete"
           THEN /\ AfterLoop("complete", {})
                /\ UNCHANGED <<needs_enhancement_init, session_count, session_type, locals, history>>
           ELSE IF LeavesLoop(complete.val) = "max_sessions"
           THEN /\ session_count' = session_count + 1
                /\ AfterLoop("max_sessions", {"max_sessions"})
                /\ UNCHANGED <<needs_enhancement_init, session_type, locals, history>>
           ELSE /\ session_count' = session_count + 1
                /\ session_type' = ChooseKind
                /\ needs_enhancement_init' = FALSE
                /\ UNCHANGED <<features_after, is_valid, error, reported>>
                /\ IF before.exc # "none"
                   THEN /\ Crash(before.exc, "load_features")
                        /\ UNCHANGED <<features_before, history>>
                   ELSE /\ features_before' = before.val
                        /\ IF OrEmptyRaises(before.val) # "none"
                           THEN Crash(OrEmptyRaises(before.val), "prev_passing") /\ UNCHANGED history
                           ELSE /\ pc' = "session"
                                /\ history' = Append(history, [kind |-> ChooseKind, validated |-> FALSE,
                                                                exists_after |-> FALSE,
                                                                warnings |-> <<>>, newly |-> <<>>])
                                /\ UNCHANGED <<outcome, raised, raised_at>>
    /\ UNCHANGED <<disk, params, aside, call, logs, stopped, seeding>>

\* ---------------------------------------------------------------------
\* run_session
\* ---------------------------------------------------------------------
\* how the agent invocation ends
InvocationResults == {"returned", "TimeoutExpired", "failure"}

\* one change to a list: a record removed, a description reworded, a feature
\* renamed, passes flipped, an element replaced by {} or by a string, an
\* element appended, the order reversed
Edits(s) ==
    {SubSeq(s, 1, i - 1) \o SubSeq(s, i + 1, Len(s)) : i \in DOMAIN s}
    \cup {[s EXCEPT ![i].description = d] : i \in {j \in DOMAIN s : s[j].k = "dict"}, d \in Descs}
    \cup {[s EXCEPT ![i].feature = n] : i \in {j \in DOMAIN s : s[j].k = "dict"}, n \in Names}
    \cup {[s EXCEPT ![i].passes = ~@] : i \in {j \in DOMAIN s : s[j].k = "dict"}}
    \cup {[s EXCEPT ![i] = e] : i \in DOMAIN s, e \in {EmptyDict, NonDict}}
    \cup (IF Len(s) < MaxLen THEN {Append(s, e) : e \in Elements} ELSE {})
    \cup {[i \in DOMAIN s |-> s[Len(s) + 1 - i]]}

IsList(c) == c.kind = "json" /\ c.val.t = "list"

\* the agent has write access to the file: what it leaves there. It leaves
\* the file alone, deletes or corrupts it, writes some other JSON value,
\* changes the list in it, or starts a list where there was none.
AgentWrites(c) ==
    {c, Missing, Binary, Text}
    \cup {JsonFile("compact", v) : v \in Shapes \cup {PyList(<<>>)}}
    \cup (IF IsList(c) THEN {JsonFile("compact", PyList(s)) : s \in Edits(c.val.items)}
          ELSE {JsonFile("compact", PyList(<<e>>)) : e \in Elements})

\* ui.Spinner(label): the class takes no argument
Spinner == "TypeError"
\* ui.print_timeout(timeout, duration): the function takes one argument
print_timeout == "TypeError"
\* ui.print_error(e, duration=..., session_type=...): it takes one argument
print_error == "TypeError"

\* client.query_streaming(prompt): runs the agent, returns its output or
\* raises what the invocation raised
query_streaming(result) == [exc |-> IF result = "returned" THEN "none" ELSE result, ran |-> TRUE]

\* run_with_spinner(client.query, ...): the spinner is built before the
\* worker thread is started
run_with_spinner(result) ==
    IF Spinner # "none" THEN [exc |-> Spinner, ran |-> FALSE]
    ELSE [exc |-> IF result = "returned" THEN "none" ELSE result, ran |-> TRUE]

\* write_session_log(log_path, session_type, prompt, stdout, stderr,
\* duration): the record written
write_session_log(kind, stdout, stderr) ==
    [session_type |-> kind, stdout |-> stdout, stderr |-> stderr]

\* the stderr text of a record: the agent's, the timeout, the exception
AgentText == [what |-> "output", of |-> "agent"]
TimeoutText == [what |-> "TIMEOUT after", of |-> "timeout"]
ExceptionText(e) == [what |-> "str", of |-> e]

\* writes no record when the invocation did not return
run_session_LogOnReturnOnly(verb, kind, result) ==
    LET q == IF verb THEN query_streaming(result) ELSE run_with_spinner(result)
        base == [exc |-> "none", status |-> "continue", ran |-> q.ran, caught |-> q.exc,
                 written |-> <<>>]
    IN  IF q.exc = "none"
        THEN [base EXCEPT !.written = <<write_session_log(kind, "output", AgentText)>>]
        ELSE IF q.exc = "TimeoutExpired"
        THEN [base EXCEPT !.exc = print_timeout, !.status = "error"]
        ELSE [base EXCEPT !.exc = print_error, !.status = "error"]

\* lines 162-189: status returned, or the exception that leaves run_session;
\* ran tells whether the agent was invoked at all, caught what the try block
\* raised, written the log records written
run_session(verb, kind, result) ==
    LET q == IF verb THEN query_streaming(result) ELSE run_with_spinner(result)
        base == [exc |-> "none", status |-> "continue", ran |-> q.ran, caught |-> q.exc,
                 written |-> <<>>]
    IN  IF q.exc = "none"
        THEN [base EXCEPT !.written = <<write_session_log(kind, "output", AgentText)>>]
        ELSE IF q.exc = "TimeoutExpired"
        THEN [base EXCEPT !.exc = print_timeout, !.status = "error",
                          !.written = <<write_session_log(kind, "", TimeoutText)>>]
        ELSE [base EXCEPT !.exc = print_error, !.status = "error",
                          !.written = <<write_session_log(kind, "", ExceptionText(q.exc))>>]

\* (features or []): the elements iterated
OrEmpty(v) == IF Truthy(v) THEN v.items ELSE <<>>

\* every passing record of the list, whatever passed before
newly_completed_AllPassing(before, after) ==
    SelectSeq(OrEmpty(after), PassesOf)

\* lines 275-279: the records of features_after that pass and whose name
\* is not the name of a passing record of features_before
newly_completed(before, after) ==
    LET before_passing == {NameOf(OrEmpty(before)[i]) :
                              i \in {j \in DOMAIN OrEmpty(before) : PassesOf(OrEmpty(before)[j])}}
    IN  SelectSeq(OrEmpty(after), LAMBDA f : PassesOf(f) /\ NameOf(f) \notin before_passing)

\* ui.print_warning(message)
print_warning(message, detail) == [message |-> message, detail |-> detail]

\* lines 267-270: the warnings printed for the validation result v
Warnings(v, before) ==
    IF v.is_valid THEN <<>>
    ELSE <<print_warning("Invalid feature_list.json change", v.error)>>
         \o (IF before # PyNone
             THEN <<print_warning("Restoring previous feature_list.json", NoReason)>>
             ELSE <<>>)

\* warns but leaves the file as the session left it
AfterSession_NoRestore(before, w) ==
    LET after == load_features(w)
        v == validate_feature_changes(before, after.val)
        base == [disk |-> w, features_after |-> after.val, is_valid |-> TRUE, error |-> NoReason,
                 validated |-> FALSE, exc |-> "none", at |-> "none", warnings |-> <<>>,
                 newly |-> <<>>]
    IN  IF after.exc # "none"
        THEN [base EXCEPT !.features_after = PyNone, !.exc = after.exc, !.at = "load_features"]
        ELSE IF v.exc # "none"
        THEN [base EXCEPT !.exc = v.exc, !.at = "validate_feature_changes"]
        ELSE LET done == [base EXCEPT !.is_valid = v.is_valid, !.error = v.error, !.validated = TRUE,
                                      !.warnings = Warnings(v, before)]
             IN  IF OrEmptyRaises(after.val) # "none"
                 THEN [done EXCEPT !.exc = OrEmptyRaises(after.val), !.at = "newly_completed"]
                 ELSE IF get_progress_stats(w).exc # "none"
                 THEN [done EXCEPT !.exc = get_progress_stats(w).exc, !.at = "print_session_progress",
                                   !.newly = newly_completed(before, after.val)]
                 ELSE [done EXCEPT !.newly = newly_completed(before, after.val)]

\* restores the snapshot without a word
AfterSession_Silent(before, w) ==
    LET after == load_features(w)
        v == validate_feature_changes(before, after.val)
        restore == ~v.is_valid /\ before # PyNone
        d == IF restore THEN save_features(before) ELSE w
        shown == IF restore THEN before ELSE after.val
        base == [disk |-> w, features_after |-> after.val, is_valid |-> TRUE, error |-> NoReason,
                 validated |-> FALSE, exc |-> "none", at |-> "none", warnings |-> <<>>,
                 newly |-> <<>>]
    IN  IF after.exc # "none"
        THEN [base EXCEPT !.features_after = PyNone, !.exc = after.exc, !.at = "load_features"]
        ELSE IF v.exc # "none"
        THEN [base EXCEPT !.exc = v.exc, !.at = "validate_feature_changes"]
        ELSE LET done == [base EXCEPT !.disk = d, !.features_after = shown, !.is_valid = v.is_valid,
                                      !.error = v.error, !.validated = TRUE]
             IN  IF OrEmptyRaises(shown) # "none"
                 THEN [done EXCEPT !.exc = OrEmptyRaises(shown), !.at = "newly_completed"]
                 ELSE IF get_progress_stats(d).exc # "none"
                 THEN [done EXCEPT !.exc = get_progress_stats(d).exc, !.at = "print_session_progress",
                                   !.newly = newly_completed(before, shown)]
                 ELSE [done EXCEPT !.newly = newly_completed(before, shown)]

\* saves the list it loaded after every session, valid or not
AfterSession_Resave(before, w) ==
    LET after == load_features(w)
        v == validate_feature_changes(before, after.val)
        restore == ~v.is_valid /\ before # PyNone
        shown == IF restore THEN before ELSE after.val
        d == IF shown # PyNone THEN save_features(shown) ELSE w
        base == [disk |-> w, features_after |-> after.val, is_valid |-> TRUE, error |-> NoReason,
                 validated |-> FALSE, exc |-> "none", at |-> "none", warnings |-> <<>>,
                 newly |-> <<>>]
    IN  IF after.exc # "none"
        THEN [base EXCEPT !.features_after = PyNone, !.exc = after.exc, !.at = "load_features"]
        ELSE IF v.exc # "none"
        THEN [base EXCEPT !.exc = v.exc, !.at = "validate_feature_changes"]
        ELSE LET done == [base EXCEPT !.disk = d, !.features_after = shown, !.is_valid = v.is_valid,
                                      !.error = v.error, !.validated = TRUE,
                                      !.warnings = Warnings(v, before)]
             IN  IF OrEmptyRaises(shown) # "none"
                 THEN [done EXCEPT !.exc = OrEmptyRaises(shown), !.at = "newly_completed"]
                 ELSE IF get_progress_stats(d).exc # "none"
                 THEN [done EXCEPT !.exc = get_progress_stats(d).exc, !.at = "print_session_progress",
                                   !.newly = newly_completed(before, shown)]
                 ELSE [done EXCEPT !.newly = newly_completed(before, shown)]

\* lines 264-281 on the file content w left by the session: validation,
\* restore and the progress report
AfterSession(before, w) ==
    LET after == load_features(w)
        v == validate_feature_changes(before, after.val)
        restore == ~v.is_valid /\ before # PyNone
        d == IF restore THEN save_features(before) ELSE w
        shown == IF restore THEN before ELSE after.val
        base == [disk |-> w, features_after |-> after.val, is_valid |-> TRUE, error |-> NoReason,
                 validated |-> FALSE, exc |-> "none", at |-> "none", warnings |-> <<>>,
                 newly |-> <<>>]
    IN  IF after.exc # "none"
        THEN [base EXCEPT !.features_after = PyNone, !.exc = after.exc, !.at = "load_features"]
        ELSE IF v.exc # "none"
        THEN [base EXCEPT !.exc = v.exc, !.at = "validate_feature_changes"]
        ELSE LET done == [base EXCEPT !.disk = d, !.features_after = shown, !.is_valid = v.is_valid,
                                      !.error = v.error, !.validated = TRUE,
                                      !.warnings = Warnings(v, before)]
             IN  IF OrEmptyRaises(shown) # "none"
                 THEN [done EXCEPT !.exc = OrEmptyRaises(shown), !.at = "newly_completed"]
                 ELSE IF get_progress_stats(d).exc # "none"
                 THEN [done EXCEPT !.exc = get_progress_stats(d).exc, !.at = "print_session_progress",
                                   !.newly = newly_completed(before, shown)]
                 ELSE [done EXCEPT !.newly = newly_completed(before, shown)]

\* lines 261-281: the session and everything up to the wait
RunSession ==
    /\ pc = "session"
    /\ \E result \in InvocationResults :
         LET s == run_session(verbose, session_type, result) IN
         \E w \in (IF s.ran THEN AgentWrites(disk) ELSE {disk}) :
           /\ call' = [caught |-> s.caught, status |-> s.status, exc |-> s.exc, ran |-> s.ran,
                        left |-> w]
           /\ logs' = logs \o s.written
           /\ IF s.exc # "none"
              THEN /\ disk' = w
                   /\ Crash(s.exc, "run_session")
                   /\ UNCHANGED <<locals, history>>
              ELSE LET r == AfterSession(features_before, w) IN
                   /\ disk' = r.disk
                   /\ features_after' = r.features_after
                   /\ is_valid' = r.is_valid
                   /\ error' = r.error
                   /\ UNCHANGED features_before
                   /\ history' = [history EXCEPT ![Len(history)].validated = r.validated,
                                                  ![Len(history)].exists_after = r.disk.kind # "missing",
                                                  ![Len(history)].warnings = r.warnings,
                                                  ![Len(history)].newly = r.newly]
                   /\ IF r.exc # "none"
                      THEN Crash(r.exc, r.at)
                      ELSE pc' = "wait" /\ UNCHANGED <<outcome, raised, raised_at>>
    /\ UNCHANGED <<params, needs_enhancement_init, session_count, session_type, aside,
                   reported, stopped, seeding>>

\* goes on to the next iteration after a stop signal
Wait_StopIgnored ==
    /\ pc = "wait"
    /\ \E stop \in BOOLEAN :
         /\ stopped' = stop
         /\ pc' = "top" /\ UNCHANGED <<outcome, reported>>
    /\ UNCHANGED <<disk, params, needs_enhancement_init, session_count, session_type,
                   locals, raised, raised_at, history, aside, call, logs, seeding>>

\* lines 283-286: ui.wait_for_stop_signal() and the return on a stop
Wait ==
    /\ pc = "wait"
    /\ \E stop \in BOOLEAN :
         /\ stopped' = stop
         /\ IF stop
            THEN pc' = "done" /\ outcome' = "user_stopped"
                 /\ reported' = reported \cup {"user_stopped"}
            ELSE pc' = "top" /\ UNCHANGED <<outcome, reported>>
    /\ UNCHANGED <<disk, params, needs_enhancement_init, session_count, session_type,
                   locals, raised, raised_at, history, aside, call, logs, seeding>>

Next == Enter \/ LoopTop \/ RunSession \/ Wait

Spec == Init /\ [][Next]_vars

\* ---------------------------------------------------------------------
\* validate_feature_changes on its own: a checklist C, a changed C'
\* ---------------------------------------------------------------------
\* the checklists of the data model: feature records with unique names
DiffRecords == {FeatureRecord(n, d, p) : n \in 1..MaxRecords, d \in Descs, p \in BOOLEAN}
UniqueNames(s) == \A i, j \in DOMAIN s : NameOf(s[i]) = NameOf(s[j]) => i = j
Checklists == {PyList(s) : s \in {q \in SeqsUpTo(DiffRecords, MaxRecords) : UniqueNames(q)}}

InitDiff ==
    /\ features_before \in Checklists \cup {PyNone}
    /\ pc = "diff"
    /\ disk = Missing
    /\ is_adoption = FALSE
    /\ is_enhancement = FALSE
    /\ verbose = FALSE
    /\ max_sessions = 0
    /\ needs_enhancement_init = FALSE
    /\ session_count = 0
    /\ session_type = "none"
    /\ features_after = PyNone
    /\ is_valid = TRUE
    /\ error = NoReason
    /\ outcome = "running"
    /\ raised = "none"
    /\ raised_at = "none"
    /\ history = <<>>
    /\ mutation = NoMutation
    /\ call = NoCall
    /\ logs = <<>>
    /\ reported = {}
    /\ stopped = FALSE
    /\ NoWait
    /\ NoSeeding
    /\ NoCli
    /\ NoApart

\* is_valid, error = validate_feature_changes(features_before, after)
Diff(op, names, after) ==
    LET v == validate_feature_changes(features_before, after) IN
    /\ pc' = "diffed"
    /\ features_after' = after
    /\ is_valid' = v.is_valid
    /\ error' = v.error
    /\ raised' = v.exc
    /\ mutation' = [op |-> op, names |-> names]
    /\ UNCHANGED <<disk, params, needs_enhancement_init, session_count, session_type,
                   features_before, outcome, raised_at, history, call, logs, reported,
                   stopped, tty, seeding, cli, apart>>

RECURSIVE Without(_, _)
\* the list s without the records at the indexes gone
Without(s, gone) ==
    IF s = <<>> THEN <<>>
    ELSE LET rest == Without(SubSeq(s, 1, Len(s) - 1), gone)
         IN  IF Len(s) \in gone THEN rest ELSE Append(rest, s[Len(s)])

\* C' is C without at least one record
RemoveRecords ==
    /\ pc = "diff" /\ features_before # PyNone
    /\ \E gone \in (SUBSET DOMAIN features_before.items) \ {{}} :
         Diff("remove", {NameOf(features_before.items[i]) : i \in gone},
              PyList(Without(features_before.items, gone)))

\* C' is C with the description of one record changed
ChangeDescription ==
    /\ pc = "diff" /\ features_before # PyNone
    /\ \E i \in DOMAIN features_before.items :
         \E d \in Descs \ {features_before.items[i].description} :
           Diff("description", {NameOf(features_before.items[i])},
                PyList([features_before.items EXCEPT ![i].description = d]))

\* C' is C with passes flipped in some records and new records appended
FlipAndAppend ==
    /\ pc = "diff" /\ features_before # PyNone
    /\ \E flipped \in SUBSET DOMAIN features_before.items :
         \E new \in SeqsUpTo(DiffRecords, MaxRecords - Len(features_before.items)) :
           LET items == [i \in DOMAIN features_before.items |->
                           IF i \in flipped
                           THEN [features_before.items[i] EXCEPT !.passes = ~@]
                           ELSE features_before.items[i]]
           IN  /\ UniqueNames(items \o new)
               /\ Diff("flip_append", {NameOf(items[i]) : i \in flipped}, PyList(items \o new))

\* no checklist before the session, anything after it
FromAbsent ==
    /\ pc = "diff" /\ features_before = PyNone
    /\ \E after \in PyValues : Diff("from_absent", {}, after)

\* a checklist before the session, a missing or unparseable file after it
ToAbsent ==
    /\ pc = "diff" /\ features_before # PyNone
    /\ \E c \in {Missing, Text} : Diff("to_absent", {}, load_features(c).val)

NextDiff == RemoveRecords \/ ChangeDescription \/ FlipAndAppend \/ FromAbsent \/ ToAbsent

SpecDiff == InitDiff /\ [][NextDiff]_vars

\* ---------------------------------------------------------------------
\* validate_feature_changes on checklists whose names are not unique
\* ---------------------------------------------------------------------
\* records that share a name or have no "feature" key: get("feature", "")
\* gives the default for those
SharedNames == {NoKey, 1}
SharingRecords == {FeatureRecord(n, d, p) : n \in SharedNames, d \in Descs, p \in BOOLEAN}
SharingChecklists == {PyList(s) : s \in SeqsUpTo(SharingRecords, MaxRecords)}

InitSharing ==
    /\ features_before \in SharingChecklists
    /\ pc = "diff"
    /\ disk = Missing
    /\ is_adoption = FALSE
    /\ is_enhancement = FALSE
    /\ verbose = FALSE
    /\ max_sessions = 0
    /\ needs_enhancement_init = FALSE
    /\ session_count = 0
    /\ session_type = "none"
    /\ features_after = PyNone
    /\ is_valid = TRUE
    /\ error = NoReason
    /\ outcome = "running"
    /\ raised = "none"
    /\ raised_at = "none"
    /\ history = <<>>
    /\ mutation = NoMutation
    /\ call = NoCall
    /\ logs = <<>>
    /\ reported = {}
    /\ stopped = FALSE
    /\ NoWait
    /\ NoSeeding
    /\ NoCli
    /\ NoApart

NextSharing == RemoveRecords \/ ChangeDescription

SpecSharing == InitSharing /\ [][NextSharing]_vars

\* ---------------------------------------------------------------------
\* ui.wait_for_stop_signal on its own
\* ---------------------------------------------------------------------
MaxTimeout == 3
MaxKeys == 1

\* terminal settings: the line discipline a shell leaves, one without echo,
\* and the raw mode of tty.setraw
Settings == {"cooked", "noecho", "raw"}
\* what a system call on the terminal or a signal raises
WaitExceptions == {"OSError", "KeyboardInterrupt"}

InitWait ==
    /\ pc = "isatty"
    /\ isatty \in BOOLEAN
    /\ wait_timeout \in 1..MaxTimeout
    /\ remaining = 0
    /\ term \in Settings
    /\ term_at_entry = term
    /\ old_settings = "none"
    /\ stdin \in 0..MaxKeys
    /\ consumed = 0
    /\ stopped = FALSE
    /\ raised = "none"
    /\ raised_at = "none"
    /\ disk = Missing
    /\ is_adoption = FALSE
    /\ is_enhancement = FALSE
    /\ verbose = FALSE
    /\ max_sessions = 0
    /\ needs_enhancement_init = FALSE
    /\ session_count = 0
    /\ session_type = "none"
    /\ features_before = PyNone
    /\ features_after = PyNone
    /\ is_valid = TRUE
    /\ error = NoReason
    /\ outcome = "running"
    /\ history = <<>>
    /\ mutation = NoMutation
    /\ call = NoCall
    /\ logs = <<>>
    /\ reported = {}
    /\ NoSeeding
    /\ NoCli
    /\ NoApart

\* what wait_for_stop_signal leaves alone
loop == <<disk, params, needs_enhancement_init, session_count, session_type, locals,
          history, mutation, call, logs, seeding, cli, apart>>
ending == <<outcome, reported>>

\* goes on to the terminal whatever stdin is
CheckTty_AlwaysPoll ==
    /\ pc = "isatty"
    /\ pc' = "tcgetattr"
    /\ UNCHANGED <<loop, ending, stopped, raised, raised_at, tty>>

\* lines 332-338: the bell, and the return when stdin is no terminal
CheckTty ==
    /\ pc = "isatty"
    /\ IF isatty THEN pc' = "tcgetattr" /\ UNCHANGED stopped
       ELSE pc' = "returned" /\ stopped' = FALSE
    /\ UNCHANGED <<loop, ending, raised, raised_at, tty>>

\* line 341: old_settings = termios.tcgetattr(sys.stdin), outside the try
SaveSettings ==
    /\ pc = "tcgetattr"
    /\ \/ /\ old_settings' = term
          /\ pc' = "setraw"
          /\ UNCHANGED <<raised, raised_at>>
       \/ /\ pc' = "raised"
          /\ raised' = "OSError"
          /\ raised_at' = "tcgetattr"
          /\ UNCHANGED old_settings
    /\ UNCHANGED <<loop, ending, stopped, isatty, wait_timeout, remaining, term, term_at_entry,
                   stdin, consumed>>

\* restores only on the way to a return
finally_tcsetattr_ReturnOnly(exc) ==
    IF exc = "none" THEN old_settings ELSE term

\* lines 373-375: the finally clause, run on a return and on an exception
\* alike: termios.tcsetattr(sys.stdin, termios.TCSADRAIN, old_settings)
finally_tcsetattr(exc) ==
    old_settings

\* the try block is left with the return value value, or with the exception
\* exc, from settings now
Leave(value, exc, at) ==
    /\ term' = finally_tcsetattr(exc)
    /\ stopped' = value
    /\ raised' = exc
    /\ raised_at' = at
    /\ pc' = IF exc = "none" THEN "returned" ELSE "raised"

\* lines 344-348: tty.setraw(sys.stdin.fileno()) and the start of the
\* countdown
SetRaw ==
    /\ pc = "setraw"
    /\ \/ /\ term' = "raw"
          /\ remaining' = wait_timeout
          /\ pc' = "poll"
          /\ UNCHANGED <<stopped, raised, raised_at>>
       \/ /\ Leave(FALSE, "OSError", "setraw")
          /\ UNCHANGED remaining
    /\ UNCHANGED <<loop, ending, isatty, wait_timeout, term_at_entry, old_settings, stdin,
                   consumed>>

\* returns True on input without reading it
Poll_NoRead ==
    /\ pc = "poll"
    /\ \/ /\ remaining > 0
          /\ \E arrives \in 0..(MaxKeys - stdin) :
               LET ready == stdin + arrives IN
               IF ready > 0
               THEN /\ stdin' = ready
                    /\ Leave(TRUE, "none", "none")
                    /\ UNCHANGED <<remaining, consumed>>
               ELSE /\ \E left \in 0..(remaining - 1) : remaining' = left
                    /\ UNCHANGED <<stdin, consumed, term, stopped, raised, raised_at, pc>>
       \/ /\ remaining = 0
          /\ Leave(FALSE, "none", "none")
          /\ UNCHANGED <<remaining, stdin, consumed>>
       \/ /\ remaining > 0
          /\ \E e \in WaitExceptions : Leave(FALSE, e, "poll")
          /\ UNCHANGED <<remaining, stdin, consumed>>
    /\ UNCHANGED <<loop, ending, isatty, wait_timeout, term_at_entry, old_settings>>

\* lines 350-371: one round of the countdown: the prompt, select for up to a
\* second, then the key read and True, or the new remaining time; False when
\* no time remains. A key may arrive during the select, and any call may
\* raise.
Poll ==
    /\ pc = "poll"
    /\ \/ /\ remaining > 0
          /\ \E arrives \in 0..(MaxKeys - stdin) :
               LET ready == stdin + arrives IN
               IF ready > 0
               THEN /\ stdin' = ready - 1
                    /\ consumed' = consumed + 1
                    /\ Leave(TRUE, "none", "none")
                    /\ UNCHANGED remaining
               ELSE /\ \E left \in 0..(remaining - 1) : remaining' = left
                    /\ UNCHANGED <<stdin, consumed, term, stopped, raised, raised_at, pc>>
       \/ /\ remaining = 0
          /\ Leave(FALSE, "none", "none")
          /\ UNCHANGED <<remaining, stdin, consumed>>
       \/ /\ remaining > 0
          /\ \E e \in WaitExceptions : Leave(FALSE, e, "poll")
          /\ UNCHANGED <<remaining, stdin, consumed>>
    /\ UNCHANGED <<loop, ending, isatty, wait_timeout, term_at_entry, old_settings>>

\* agent.py lines 284-286: the loop takes the return value: it ends the run
\* as user-stopped on True and goes to the next iteration on False
BackInLoop ==
    /\ pc = "returned"
    /\ IF stopped
       THEN pc' = "done" /\ outcome' = "user_stopped"
            /\ reported' = reported \cup {"user_stopped"}
       ELSE pc' = "top" /\ UNCHANGED ending
    /\ UNCHANGED <<loop, stopped, raised, raised_at, tty>>

NextWait == CheckTty \/ SaveSettings \/ SetRaw \/ Poll \/ BackInLoop

SpecWait == InitWait /\ [][NextWait]_vars

\* ---------------------------------------------------------------------
\* the seeding of app_spec.txt over the runs on one project
\* ---------------------------------------------------------------------
MaxRuns == 2

\* spec contents: the empty string and two texts
SpecTexts == {"", "spec A", "spec B"}

\* the checklist files the runs start on
SeedProjects ==
    {Missing, Binary, Text, JsonFile("compact", PyList(<<>>)),
     JsonFile("compact", PyList(<<FeatureRecord(1, 1, FALSE)>>))}

InitSeed ==
    /\ pc = "entry"
    /\ disk \in SeedProjects
    /\ is_adoption \in BOOLEAN
    /\ is_enhancement \in BOOLEAN
    /\ CliCall
    /\ app_spec \in {NoSpec} \cup SpecTexts
    /\ spec_file \in {NoSpecFile} \cup SpecTexts
    /\ seeds = <<>>
    /\ verbose = FALSE
    /\ max_sessions = 0
    /\ needs_enhancement_init = FALSE
    /\ session_count = 0
    /\ session_type = "none"
    /\ features_before = PyNone
    /\ features_after = PyNone
    /\ is_valid = TRUE
    /\ error = NoReason
    /\ outcome = "running"
    /\ raised = "none"
    /\ raised_at = "none"
    /\ history = <<>>
    /\ mutation = NoMutation
    /\ call = NoCall
    /\ logs = <<>>
    /\ reported = {}
    /\ stopped = FALSE
    /\ NoWait
    /\ NoCli
    /\ NoApart

\* the run is over or given up and run_agent_loop is entered again on the
\* same project, with an app_spec and flags of its own
NextRun ==
    /\ pc \in {"top", "done"}
    /\ Len(seeds) < MaxRuns
    /\ pc' = "entry"
    /\ app_spec' \in {NoSpec} \cup SpecTexts
    /\ is_adoption' \in BOOLEAN
    /\ is_enhancement' \in BOOLEAN
    /\ is_adoption' => disk.kind = "missing"
    /\ is_enhancement' => disk.kind # "missing"
    /\ needs_enhancement_init' = FALSE
    /\ outcome' = "running"
    /\ raised' = "none"
    /\ raised_at' = "none"
    /\ UNCHANGED <<disk, verbose, max_sessions, session_count, session_type, locals, history,
                   aside, call, logs, reported, stopped, spec_file, seeds>>

NextSeed == Enter \/ NextRun

SpecSeed == InitSeed /\ [][NextSeed]_vars

\* ---------------------------------------------------------------------
\* cli.py: the commands up to their call of run_agent_loop
\* ---------------------------------------------------------------------
Commands == {"build", "resume", "continue"}
ProjectPaths == {"missing", "file", "dir"}

InitCli ==
    /\ pc = "cli"
    /\ command \in Commands
    /\ claude \in BOOLEAN
    /\ project \in ProjectPaths
    /\ exit_code = "none"
    /\ disk \in SeedProjects
    /\ project # "dir" => disk = Missing
    /\ spec_file \in {NoSpecFile} \cup SpecTexts
    /\ project # "dir" => spec_file = NoSpecFile
    /\ app_spec = NoSpec
    /\ seeds = <<>>
    /\ is_adoption = FALSE
    /\ is_enhancement = FALSE
    /\ verbose = FALSE
    /\ max_sessions \in 0..1
    /\ needs_enhancement_init = FALSE
    /\ session_count = 0
    /\ session_type = "none"
    /\ features_before = PyNone
    /\ features_after = PyNone
    /\ is_valid = TRUE
    /\ error = NoReason
    /\ outcome = "running"
    /\ raised = "none"
    /\ raised_at = "none"
    /\ history = <<>>
    /\ mutation = NoMutation
    /\ call = NoCall
    /\ logs = <<>>
    /\ reported = {}
    /\ stopped = FALSE
    /\ NoWait
    /\ NoApart

\* what a cli command leaves alone before it calls the loop
run == <<disk, verbose, max_sessions, needs_enhancement_init, session_count, session_type,
         locals, outcome, history, mutation, tty, call, logs, reported, stopped, spec_file,
         seeds, command, claude, project, apart>>

\* raise typer.Exit(code)
Exit(code) ==
    /\ pc' = "exit"
    /\ exit_code' = code

\* goes on without the binary
VerifyClaude_Skipped ==
    /\ pc = "cli"
    /\ pc' = "project"
    /\ UNCHANGED <<run, exit_code, is_adoption, is_enhancement, app_spec, raised, raised_at>>

\* the first statement of build, resume and continue_project:
\* verify_claude_cli(), and Exit(1) on its RuntimeError
VerifyClaude ==
    /\ pc = "cli"
    /\ IF claude THEN pc' = "project" /\ UNCHANGED exit_code ELSE Exit(1)
    /\ UNCHANGED <<run, is_adoption, is_enhancement, app_spec, raised, raised_at>>

\* the checks on the project path: resume wants the path and the checklist in
\* it, continue wants a directory, build wants nothing
CheckProject ==
    /\ pc = "project"
    /\ IF command = "resume" /\ (project = "missing" \/ disk.kind = "missing")
       THEN Exit(1)
       ELSE IF command = "continue" /\ project # "dir"
       THEN Exit(1)
       ELSE pc' = "spec" /\ UNCHANGED exit_code
    /\ UNCHANGED <<run, is_adoption, is_enhancement, app_spec, raised, raised_at>>

\* the spec handed to the loop: build reads or generates one, resume
\* generates one when the project has no app_spec.txt, continue generates the
\* task spec and sets the flags from the checklist's existence
MakeSpec ==
    /\ pc = "spec"
    /\ pc' = "call"
    /\ \/ /\ command = "build"
          /\ app_spec' \in SpecTexts
          /\ UNCHANGED <<is_adoption, is_enhancement>>
       \/ /\ command = "resume"
          /\ IF spec_file = NoSpecFile
             THEN app_spec' \in SpecTexts \ {""}
             ELSE app_spec' = NoSpec
          /\ UNCHANGED <<is_adoption, is_enhancement>>
       \/ /\ command = "continue"
          /\ app_spec' \in SpecTexts \ {""}
          /\ is_adoption' = (disk.kind = "missing")
          /\ is_enhancement' = (disk.kind # "missing")
    /\ UNCHANGED <<run, exit_code, raised, raised_at>>

\* run_agent_loop(project_dir=..., model=..., max_iterations=..., ...): the
\* function has no parameter max_iterations, the call raises TypeError, and
\* the commands catch KeyboardInterrupt only
CallLoop ==
    /\ pc = "call"
    /\ pc' = "done"
    /\ raised' = "TypeError"
    /\ raised_at' = "run_agent_loop"
    /\ outcome' = "exception"
    /\ UNCHANGED <<disk, verbose, max_sessions, needs_enhancement_init, session_count,
                   session_type, locals, history, aside, call, logs, reported, stopped,
                   seeding, is_adoption, is_enhancement>>

NextCli == VerifyClaude \/ CheckProject \/ MakeSpec \/ CallLoop

SpecCli == InitCli /\ [][NextCli]_vars

\* ---------------------------------------------------------------------
\* the progress reports over the files a project can hold
\* ---------------------------------------------------------------------
\* progress.py lines 7-19: the same statements as ui.get_progress_stats
count_passing_tests(c) == get_progress_stats(c)

\* (passing / total) * 100 printed with one decimal, in tenths of a percent
\* (no total below sixteen gives a tie between two tenths)
Percent(passing, total) == (2000 * passing + total) \div (2 * total)

\* divides whatever the total
print_progress_summary_AlwaysDivides(c) ==
    LET st == count_passing_tests(c) IN
    IF st.exc # "none" THEN [exc |-> st.exc, report |-> NoReport]
    ELSE IF st.total = 0 THEN [exc |-> "ZeroDivisionError", report |-> NoReport]
    ELSE [exc |-> "none",
          report |-> [passing |-> st.passing, total |-> st.total,
                      percent |-> Percent(st.passing, st.total), shown |-> "tests passing"]]

\* progress.py lines 30-36
print_progress_summary(c) ==
    LET st == count_passing_tests(c) IN
    IF st.exc # "none" THEN [exc |-> st.exc, report |-> NoReport]
    ELSE IF st.total > 0
    THEN [exc |-> "none",
          report |-> [passing |-> st.passing, total |-> st.total,
                      percent |-> Percent(st.passing, st.total), shown |-> "tests passing"]]
    ELSE [exc |-> "none",
          report |-> [passing |-> st.passing, total |-> st.total,
                      percent |-> "none", shown |-> "feature_list.json not yet created"]]

\* ui.py lines 190-208: the bar, and nothing at all without a total
print_progress_bar(c) ==
    LET st == get_progress_stats(c) IN
    IF st.exc # "none" THEN [exc |-> st.exc, report |-> NoReport]
    ELSE IF st.total > 0
    THEN [exc |-> "none",
          report |-> [passing |-> st.passing, total |-> st.total,
                      percent |-> Percent(st.passing, st.total), shown |-> "bar"]]
    ELSE [exc |-> "none",
          report |-> [passing |-> st.passing, total |-> st.total,
                      percent |-> "none", shown |-> "nothing"]]

\* the files reported on: no file, files that do not parse, JSON values that
\* are no list, and the checklists
ProgressFiles ==
    {Missing, Binary, Text}
    \cup {JsonFile("compact", v) : v \in Shapes}
    \cup {JsonFile(l, c) : l \in Layouts, c \in Checklists}

InitProgress ==
    /\ pc = "report"
    /\ disk \in ProgressFiles
    /\ progress = NoReport
    /\ clock = 0
    /\ log_files = {}
    /\ is_adoption = FALSE
    /\ is_enhancement = FALSE
    /\ verbose = FALSE
    /\ max_sessions = 0
    /\ needs_enhancement_init = FALSE
    /\ session_count = 0
    /\ session_type = "none"
    /\ features_before = PyNone
    /\ features_after = PyNone
    /\ is_valid = TRUE
    /\ error = NoReason
    /\ outcome = "running"
    /\ raised = "none"
    /\ raised_at = "none"
    /\ history = <<>>
    /\ mutation = NoMutation
    /\ call = NoCall
    /\ logs = <<>>
    /\ reported = {}
    /\ stopped = FALSE
    /\ NoWait
    /\ NoSeeding
    /\ command = "none" /\ claude = TRUE /\ project = "dir" /\ exit_code = "none"

\* the report r was printed, or its exception raised
Reported(r, by) ==
    /\ pc' = "reported"
    /\ progress' = r.report
    /\ raised' = r.exc
    /\ raised_at' = IF r.exc = "none" THEN "none" ELSE by
    /\ UNCHANGED <<disk, params, needs_enhancement_init, session_count, session_type, locals,
                   outcome, history, mutation, call, logs, reported, stopped, tty, seeding,
                   cli, clock, log_files>>

PrintProgressSummary ==
    /\ pc = "report"
    /\ Reported(print_progress_summary(disk), "print_progress_summary")

PrintProgressBar ==
    /\ pc = "report"
    /\ Reported(print_progress_bar(disk), "print_progress_bar")

NextProgress == PrintProgressSummary \/ PrintProgressBar

SpecProgress == InitProgress /\ [][NextProgress]_vars

\* ---------------------------------------------------------------------
\* The log directory over a sequence of run_session calls
\* ---------------------------------------------------------------------
\* seconds the clock can reach
MaxClock == 1
\* run_session calls followed
MaxCalls == 2

\* lines 23-28: the directory is fixed; the file name is the time of the
\* call, to the second, and the session type
get_log_path(now, kind) == [timestamp |-> now, session_type |-> kind]

\* line 40, open(log_path, "w"): a file of that path is truncated, any
\* other file stays
open_w(files, path, content, by) ==
    {f \in files : f.path # path} \cup {[path |-> path, content |-> content, by |-> by]}

InitLog ==
    /\ pc = "calls"
    /\ disk = Missing
    /\ progress = NoReport
    /\ clock = 0
    /\ log_files = {}
    /\ is_adoption = FALSE
    /\ is_enhancement = FALSE
    /\ verbose = FALSE
    /\ max_sessions = 0
    /\ needs_enhancement_init = FALSE
    /\ session_count = 0
    /\ session_type = "none"
    /\ features_before = PyNone
    /\ features_after = PyNone
    /\ is_valid = TRUE
    /\ error = NoReason
    /\ outcome = "running"
    /\ raised = "none"
    /\ raised_at = "none"
    /\ history = <<>>
    /\ mutation = NoMutation
    /\ call = NoCall
    /\ logs = <<>>
    /\ reported = {}
    /\ stopped = FALSE
    /\ NoWait
    /\ NoSeeding
    /\ command = "none" /\ claude = TRUE /\ project = "dir" /\ exit_code = "none"

\* a second passes between two calls
Tick ==
    /\ pc = "calls"
    /\ clock < MaxClock
    /\ clock' = clock + 1
    /\ UNCHANGED <<disk, pc, params, needs_enhancement_init, session_count, session_type, locals,
                   outcome, raised, raised_at, history, mutation, call, logs, reported, stopped,
                   tty, seeding, cli, progress, log_files>>

\* lines 161-189: one call of run_session(project_dir, ..., session_type,
\* ..., verbose). The path is computed first, from the clock at the call;
\* the record is written to it when the invocation has ended.
CallRunSession ==
    /\ pc = "calls"
    /\ Len(logs) < MaxCalls
    /\ \E kind \in SessionKinds, verb \in BOOLEAN, result \in InvocationResults :
         LET log_path == get_log_path(clock, kind)
             s == run_session(verb, kind, result)
         IN  /\ call' = [caught |-> s.caught, status |-> s.status, exc |-> s.exc, ran |-> s.ran,
                          left |-> disk]
             /\ logs' = logs \o s.written
             /\ log_files' = open_w(log_files, log_path, s.written[1], Len(logs) + 1)
    /\ UNCHANGED <<disk, pc, params, needs_enhancement_init, session_count, session_type, locals,
                   outcome, raised, raised_at, history, mutation, reported, stopped,
                   tty, seeding, cli, progress, clock>>

NextLog == Tick \/ CallRunSession

SpecLog == InitLog /\ [][NextLog]_vars

\* ---------------------------------------------------------------------
\* Properties
\* ---------------------------------------------------------------------
\* the validation / restore step of the latest iteration has finished and
\* no later session has started
Validated ==
    /\ pc \in {"wait", "top", "done"}
    /\ history # <<>>
    /\ history[Len(history)].validated

\* a list of feature records with unique names
WellFormed(v) ==
    /\ v.t = "list"
    /\ \A i \in DOMAIN v.items : v.items[i].k = "dict"
    /\ UniqueNames(v.items)

\* C1: after the validation / restore step of an iteration whose snapshot
\* before the session was a checklist with unique names, the file holds every
\* name of that snapshot with its description, whatever the session wrote.
C1_NamesAndDescriptionsKept ==
    (Validated /\ WellFormed(features_before)) =>
        LET now == load_features(disk) IN
        /\ now.exc = "none"
        /\ \A i \in DOMAIN features_before.items :
             \E j \in DOMAIN now.val.items :
                /\ now.val.items[j].k = "dict"
                /\ NameOf(now.val.items[j]) = NameOf(features_before.items[i])
                /\ DescriptionOf(now.val.items[j]) = DescriptionOf(features_before.items[i])

\* a session reworded a description of a two-record checklist and the
\* iteration has finished its validation
C1_Witness ==
    /\ Validated /\ WellFormed(features_before)
    /\ Len(features_before.items) = 2
    /\ ~is_valid /\ error.kind = "Feature description was modified"

\* C2: after an invalid change the restore leaves a file that load_features
\* reads back as the snapshot taken before the session: the same records in
\* the same order.
C2_RestoreEqualsBefore ==
    (Validated /\ ~is_valid) => load_features(disk) = Ret(features_before)

\* a session removed one of two records and the snapshot was written back
C2_Witness ==
    /\ Validated /\ ~is_valid
    /\ error.kind = "Features were removed" /\ Cardinality(error.names) = 1
    /\ WellFormed(features_before) /\ Len(features_before.items) = 2
    /\ disk = JsonFile("indent2", features_before)

\* C3: removing at least one record of a checklist is invalid and the reason
\* names every removed feature.
C3_RemovalInvalid ==
    (pc = "diffed" /\ mutation.op = "remove") =>
        /\ raised = "none" /\ ~is_valid
        /\ error.kind = "Features were removed"
        /\ mutation.names \subseteq error.names

\* two of three records were removed
C3_Witness ==
    /\ pc = "diffed" /\ mutation.op = "remove"
    /\ Len(features_before.items) = 3 /\ Len(features_after.items) = 1
    /\ Cardinality(error.names) = 2

\* C4: changing the description of exactly one record is invalid and the
\* reason names that feature.
C4_DescriptionChangeInvalid ==
    (pc = "diffed" /\ mutation.op = "description") =>
        /\ raised = "none" /\ ~is_valid
        /\ error = [kind |-> "Feature description was modified", names |-> mutation.names]

\* the description of the last of three records was changed
C4_Witness ==
    /\ pc = "diffed" /\ mutation.op = "description"
    /\ Len(features_before.items) = 3
    /\ mutation.names = {NameOf(features_before.items[3])}
    /\ ~is_valid

\* C5: flipping passes in any subset of the records and appending new
\* records is valid; so is the unchanged checklist.
C5_FlipsAndAdditionsValid ==
    (pc = "diffed" /\ mutation.op = "flip_append") =>
        raised = "none" /\ is_valid /\ error = NoReason

\* passes flipped in both directions and a record appended
C5_Witness ==
    /\ pc = "diffed" /\ mutation.op = "flip_append"
    /\ Len(features_before.items) = 2 /\ Len(features_after.items) = 3
    /\ features_before.items[1].passes /\ ~features_after.items[1].passes
    /\ ~features_before.items[2].passes /\ features_after.items[2].passes
    /\ is_valid

\* C6: with no checklist before the session every value after it is valid: a
\* checklist, the empty list, no checklist.
C6_FirstCreationValid ==
    (pc = "diffed" /\ mutation.op = "from_absent") =>
        raised = "none" /\ is_valid /\ error = NoReason

\* absent before and absent after
C6_Witness ==
    /\ pc = "diffed" /\ mutation.op = "from_absent"
    /\ features_before = PyNone /\ features_after = PyNone
    /\ is_valid

\* C7: a checklist before the session, even the empty one, and a missing or
\* unparseable file after it is invalid with the deleted-or-corrupted reason.
C7_DeletionInvalid ==
    (pc = "diffed" /\ mutation.op = "to_absent") =>
        /\ raised = "none" /\ ~is_valid
        /\ error.kind = "feature_list.json was deleted or corrupted"

\* the empty checklist was deleted
C7_Witness ==
    /\ pc = "diffed" /\ mutation.op = "to_absent"
    /\ features_before = PyList(<<>>) /\ features_after = PyNone
    /\ ~is_valid

\* the file holds a list of at least one record and every record passes
AllRecordsPass(c) ==
    /\ IsList(c)
    /\ c.val.items # <<>>
    /\ \A i \in DOMAIN c.val.items : c.val.items[i].k # "other" /\ PassesOf(c.val.items[i])

\* C8: is_project_complete is true exactly when the file holds a list of at
\* least one record whose records all pass: the loop starts no session on
\* such a file and ends as complete on no other, in particular not on a list
\* without records.
C8_CompleteNeedsARecord ==
    /\ pc = "session" => ~AllRecordsPass(disk)
    /\ outcome = "complete" => AllRecordsPass(disk)

\* the file holds a list of dicts
ExpectedStructure(c) ==
    IsList(c) /\ \A i \in DOMAIN c.val.items : c.val.items[i].k # "other"

\* C9: on a file that is not a list of objects is_project_complete returns
\* false and raises nothing into run_agent_loop: the loop does not end as
\* complete on such a file and no exception of the completion check ends it.
C9_UnexpectedStructureIsAbsent ==
    /\ raised_at # "is_project_complete"
    /\ outcome = "complete" => ExpectedStructure(disk)

NonEmptyChecklist(c) == ExpectedStructure(c) /\ c.val.items # <<>>

\* C11: a run entered with is_enhancement on an existing checklist of at
\* least one record, and ended without an exception, has run the
\* enhancement_init session as its first session and never again, also when
\* every record passed at entry.
C11_EnhancementInitRunsOnce ==
    (/\ is_enhancement /\ pc = "done" /\ outcome # "exception"
     /\ history = <<>> => NonEmptyChecklist(disk)) =>
        /\ history # <<>>
        /\ history[1].kind = "enhancement_init"
        /\ \A j \in DOMAIN history : j > 1 => history[j].kind # "enhancement_init"

C13_StatusTellsOutcome ==
    call # NoCall =>
        /\ call.exc = "none"
        /\ call.status = (CASE call.caught = "none" -> "continue"
                            [] call.caught = "TimeoutExpired" -> "timeout"
                            [] OTHER -> "error")

\* C14: every call of run_session has written exactly one log record by the
\* time it returns or raises, under the session type of the call; after a
\* timeout the record's error text carries the timeout, after another failure
\* the message of the exception, after a return the output.
C14_OneLogPerCall ==
    /\ Len(logs) = (IF pc = "session" THEN Len(history) - 1 ELSE Len(history))
    /\ \A j \in DOMAIN logs : logs[j].session_type = history[j].kind
    /\ call # NoCall =>
         LET record == logs[Len(logs)] IN
         /\ call.caught = "none" => record.stdout = "output" /\ record.stderr = AgentText
         /\ call.caught = "TimeoutExpired" => record.stdout = "" /\ record.stderr = TimeoutText
         /\ call.caught \notin {"none", "TimeoutExpired"} =>
              record.stdout = "" /\ record.stderr = ExceptionText(call.caught)

\* the second session of a run timed out and its record was written
C14_Witness ==
    /\ call.caught = "TimeoutExpired"
    /\ Len(logs) = 2 /\ Len(history) = 2
    /\ logs[2] = write_session_log(history[2].kind, "", TimeoutText)

\* C15: no exception leaves run_session, so a session that timed out or
\* failed does not end run_agent_loop.
C15_FailedSessionGoesOn ==
    raised_at # "run_session"

\* C16: under a ceiling of N >= 1 sessions at most N sessions are started,
\* initializer sessions included, and the max-sessions report is printed
\* exactly when session N + 1 would start, which ends the loop.
C16_AtMostNSessions ==
    max_sessions # 0 =>
        /\ Len(history) <= max_sessions
        /\ Len(logs) <= max_sessions
        /\ "max_sessions" \in reported <=> session_count > max_sessions
        /\ session_count > max_sessions => pc = "done" /\ session_count = max_sessions + 1

\* a ceiling of two: an initializer session, one more session, then the
\* max-sessions report
C16_Witness ==
    /\ max_sessions = 2 /\ outcome = "max_sessions"
    /\ Len(history) = 2 /\ history[1].kind \in InitKinds
    /\ "max_sessions" \in reported

\* C17: once wait_for_stop_signal has returned true the run has ended as
\* user-stopped: no later session, no later access to the file, and the
\* complete report was not printed.
C17_StopEndsTheRun ==
    stopped =>
        /\ pc = "done" /\ outcome = "user_stopped"
        /\ reported = {"user_stopped"}
        /\ Len(logs) = Len(history) /\ session_count = Len(history)

\* the stop signal came after the second session
C17_Witness ==
    /\ stopped /\ outcome = "user_stopped"
    /\ Len(history) = 2 /\ history[2].validated

\* C18: the complete report is printed only when the loop ended because the
\* checklist is complete, never after the max-sessions report.
C18_CompleteReportOnlyWhenComplete ==
    "complete" \in reported =>
        outcome = "complete" /\ "max_sessions" \notin reported

\* the reasons an integrity violation is reported with
ViolationKinds == {"Features were removed", "Feature description was modified",
                   "feature_list.json was deleted or corrupted"}

C20_TerminalRestored ==
    pc \in {"returned", "raised", "top", "done"} => term = term_at_entry

\* the terminal was switched from a mode that is not raw, a round of the
\* countdown passed, and then an exception left the wait
C20_Witness ==
    /\ pc = "raised" /\ raised_at = "poll"
    /\ old_settings \in {"cooked", "noecho"}
    /\ remaining < wait_timeout
    /\ term = old_settings

\* C21: when stdin is not a terminal wait_for_stop_signal returns false at
\* once: no countdown, no read, the terminal untouched; the run goes to its
\* next iteration and does not end as user-stopped.
C21_NoTerminalNoWait ==
    ~isatty =>
        /\ pc \in {"isatty", "returned", "top"}
        /\ ~stopped /\ raised = "none"
        /\ remaining = 0 /\ consumed = 0
        /\ old_settings = "none" /\ term = term_at_entry
        /\ outcome # "user_stopped"

\* stdin is not a terminal, a key is waiting unread, and the loop is at its
\* next iteration
C21_Witness ==
    /\ ~isatty /\ pc = "top"
    /\ stdin = 1 /\ ~stopped

C23_SeedOnce ==
    [][/\ spec_file # NoSpecFile => spec_file' = spec_file
       /\ spec_file' \in {spec_file, app_spec}]_vars

\* two runs passed different contents; the file holds the first
C23_Witness ==
    /\ Len(seeds) = 2 /\ pc = "top"
    /\ seeds[1] = "spec A" /\ seeds[2] = "spec B"
    /\ spec_file = "spec A"

\* a precondition of the command fails: no claude binary; for resume no
\* project path or no checklist in it; for continue no project directory
PreconditionFails ==
    \/ ~claude
    \/ command = "resume" /\ (project # "dir" \/ disk.kind = "missing")
    \/ command = "continue" /\ project # "dir"

C25_OneWorkerPerSession ==
    call # NoCall =>
        /\ call.ran
        /\ call.caught \in {"none", "TimeoutExpired", "failure"}

\* the records of s that do not pass, in order
Pending(s) == SelectSeq(s, LAMBDA r : ~r.passes)

\* C26: a progress report has 0 <= passing <= total; on a checklist total is
\* the number of records and passing the number of records with passes true;
\* and with total = 0 (no file, a file that does not parse, the empty
\* checklist) no percentage is computed and the summary says that there is no
\* checklist yet.
C26_ProgressStatistics ==
    /\ (/\ pc = "reported"
        /\ disk \in {Missing, Text} \/ (disk.kind = "json" /\ WellFormed(disk.val))) =>
            raised = "none"
    /\ (pc = "reported" /\ raised = "none") =>
        /\ 0 <= progress.passing /\ progress.passing <= progress.total
        /\ WellFormed(disk.val) /\ disk.kind = "json" =>
              /\ progress.total = Len(disk.val.items)
              /\ progress.passing + Len(Pending(disk.val.items)) = progress.total
        /\ (disk \in {Missing, Text} \/ (disk.val = PyList(<<>>) /\ disk.kind = "json")) =>
              progress.total = 0
        /\ progress.total = 0 =>
              /\ progress.percent = "none"
              /\ progress.shown \in {"feature_list.json not yet created", "nothing"}
        /\ progress.total > 0 =>
              /\ progress.percent = Percent(progress.passing, progress.total)
              /\ progress.shown \in {"tests passing", "bar"}

\* three records, two of them passing: 2 of 3, 66.7 percent, one pending
C26_Witness ==
    /\ pc = "reported" /\ raised = "none"
    /\ progress = [passing |-> 2, total |-> 3, percent |-> 667, shown |-> "tests passing"]
    /\ Len(Pending(disk.val.items)) = 1

\* C27: at the top of an iteration the completion check comes before the
\* ceiling check. No session is started on a checklist that is complete
\* there; the ceiling is reported only on a checklist that is not complete;
\* and when the N-th session of a run with ceiling N leaves the checklist
\* complete and no stop is signalled, the run ends as complete and the
\* ceiling is never reported.
C27_CompletionBeforeCeiling ==
    /\ pc = "session" => is_project_complete(disk) = RetBool(FALSE)
    /\ "max_sessions" \in reported => is_project_complete(disk) = RetBool(FALSE)
    /\ outcome = "max_sessions" => is_project_complete(disk) = RetBool(FALSE)
    /\ (/\ pc = "done" /\ outcome # "exception" /\ ~stopped
        /\ max_sessions # 0 /\ Len(history) = max_sessions
        /\ is_project_complete(disk) = RetBool(TRUE))
       => outcome = "complete" /\ "max_sessions" \notin reported /\ session_count = max_sessions

\* the last session allowed by the ceiling started on an incomplete checklist
\* and left it complete: the run ended as complete
C27_Witness ==
    /\ pc = "done" /\ outcome = "complete"
    /\ max_sessions # 0 /\ Len(history) = max_sessions /\ session_count = max_sessions
    /\ history[Len(history)].validated
    /\ is_project_complete(disk) = RetBool(TRUE)
    /\ "max_sessions" \notin reported

\* the last session started has been validated and its newly completed
\* records computed, and no later snapshot has been taken
SessionReported ==
    /\ history # <<>>
    /\ history[Len(history)].validated
    /\ raised_at \notin {"newly_completed", "prev_passing"}

\* C28: the newly completed records reported after a session are exactly
\* the records of features_after (as it stands after validation) that pass
\* and whose name is not the name of a passing record of features_before,
\* in the order of features_after. After an invalid change that was
\* restored, features_after is features_before, no record is reported as
\* newly completed and the passing count the report reads from the file is
\* the count of before the session.
C28_NewlyCompleted ==
    SessionReported =>
        LET newly == history[Len(history)].newly
            before == OrEmpty(features_before)
            after == OrEmpty(features_after)
            New(f) == /\ PassesOf(f)
                      /\ ~\E j \in DOMAIN before : PassesOf(before[j]) /\ NameOf(before[j]) = NameOf(f)
            news == {i \in DOMAIN after : New(after[i])}
        IN  /\ Len(newly) = Cardinality(news)
            /\ \A k \in DOMAIN newly :
                  \E i \in news : /\ newly[k] = after[i]
                                  /\ Cardinality({j \in news : j < i}) = k - 1
            /\ (~is_valid /\ features_before # PyNone) =>
                  /\ features_after = features_before
                  /\ newly = <<>>
                  /\ disk = save_features(features_before)
                  /\ get_progress_stats(disk).exc = "none" =>
                         get_progress_stats(disk).passing = CountPassing(before)

\* a first session added a passing record, reported as newly completed; the
\* second deleted the file, which was restored: nothing newly completed and
\* the passing count of before that session
C28_Witness ==
    /\ pc = "wait" /\ Len(history) = 2
    /\ Len(history[1].newly) = 1
    /\ ~is_valid /\ features_before # PyNone
    /\ history[2].newly = <<>>
    /\ CountPassing(features_before.items) = 1
    /\ get_progress_stats(disk).passing = 1

\* C29: run_agent_loop writes the checklist file only on the restore path,
\* and then the snapshot it loaded from that file before the session. In
\* every other case (a valid change, an absent snapshot, a step that
\* raises) the file stays exactly as the session left it, and a session
\* that started without a file and left none ends without one. No step
\* outside a session changes the file.
C29_WritesOnlyToRestore ==
    [][/\ pc # "session" => disk' = disk
       /\ pc = "session" =>
         /\ disk' # call'.left =>
               /\ features_before # PyNone
               /\ features_before = load_features(disk).val
               /\ history'[Len(history')].validated /\ ~is_valid'
               /\ disk' = save_features(features_before)
         /\ (history'[Len(history')].validated /\ is_valid') => disk' = call'.left
         /\ features_before = PyNone => disk' = call'.left
         /\ (disk.kind = "missing" /\ call'.left.kind = "missing") => disk'.kind = "missing"]_vars

\* the first session started without a checklist and its file was left as
\* written; the file after the second session is not what that session left
\* but the snapshot taken before it
C29_Witness ==
    /\ pc = "wait" /\ Len(history) = 2
    /\ history[1].kind \in InitKinds /\ history[1].validated /\ history[1].warnings = <<>>
    /\ disk # call.left
    /\ disk = save_features(features_before)

\* C30: after k calls of run_session in one project directory the log
\* directory holds k files, one written by each call: no call has
\* overwritten the file of an earlier one.
C30_OneLogFilePerCall ==
    /\ Cardinality(log_files) = Len(logs)
    /\ \A k \in 1..Len(logs) : \E f \in log_files : f.by = k /\ f.content = logs[k]

\* C31: on checklists whose records may share a name or have no name
\* field, a change that takes records away (so that some name is carried by
\* fewer records than before) is invalid, and so is a change of the
\* description of any one record.
C31_RemovalByMultiset ==
    (pc = "diffed" /\ mutation.op \in {"remove", "description"}) =>
        raised = "none" /\ ~is_valid

\* C32: on an enhancement entry (a checklist file, is_enhancement, a task
\* spec passed) app_spec.txt holds the task spec when the loop is reached,
\* before the enhancement_init session starts, also when an app_spec.txt
\* was already there.
C32_EnhancementSpecSeeded ==
    (/\ pc = "top" /\ session_count = 0
     /\ is_enhancement /\ disk.kind # "missing"
     /\ app_spec \notin {NoSpec, ""}) => spec_file = app_spec

\* C33: a run with a ceiling of at least one session, in which every agent
\* invocation returned, ends as complete, as max-sessions-reached or as
\* stopped by the user, whatever the sessions left in the checklist file.
C33_CeilingRunEndsInOutcome ==
    (/\ pc = "done" /\ max_sessions # 0
     /\ call # NoCall /\ call.ran /\ call.caught = "none") =>
        outcome \in {"complete", "max_sessions", "user_stopped"}

\* C34: run_agent_loop called with max_sessions = 0 on a checklist that is
\* not complete starts no session and ends as max-sessions-reached.
C34_ZeroCeilingHonoured ==
    (max_sessions = 0 /\ pc \notin {"entry", "top"}) =>
        /\ history = <<>>
        /\ outcome \in {"max_sessions", "complete", "exception"}

====
